---- MODULE Spec2Model ----
(***************************************************************************)
(* Model of the scan controller of mactest (src/src/lib.rs).               *)
(*                                                                         *)
(* The controller (struct Scandir) is built by Scandir::new from a root    *)
(* path and an optional store flag and is queried with duration(),         *)
(* finished() and finished2().  The repository declares the fields a       *)
(* background worker uses (thr, stop, rx, finished, duration) but holds no *)
(* code that starts, stops or runs a worker; those operations are modelled *)
(* from the design document and are marked as such below.                  *)
(***************************************************************************)
EXTENDS Integers, Sequences, FiniteSets, TLC

\* ------------------------------------------------------------------ bounds
\* Number of nodes below the root, in the order the walk visits them.
TreeSize == 2
\* Largest number of clock ticks that may pass while a walk is running.
MaxElapsed == 2
\* Largest number of consecutive queries the caller makes.
MaxCalls == 2
\* Largest explicit max_file_cnt the caller chooses at start (besides usize::MAX).
MaxCnt == 1

\* --------------------------------------------------------------- constants
\* usize::MAX (lib.rs:174-175), capped to the largest integer the checker
\* represents; only its being larger than every count matters here.
USIZE_MAX == 2147483647

\* Option<T>::None
None == "None"

\* ------------------------------------------------- environment: file system
\* The paths a caller passes as root_path (P: AsRef<Path>).  "/data/<FF>" and
\* "/missing/<FF>" stand for paths with a byte that is not valid UTF-8; the
\* first names an existing directory, the second names nothing.
PathInputs == {".", "~", "/missing", "/locked/x", "/data/<FF>", "/missing/<FF>"}

\* Path::to_str(): None for a path that is not valid UTF-8.
to_str(path) ==
    IF path \in {"/data/<FF>", "/missing/<FF>"}
    THEN [some |-> FALSE, val |-> ""]
    ELSE [some |-> TRUE, val |-> path]

\* expanduser(s): "~" becomes the home directory when it can be looked up
\* (home_ok) and is an Err otherwise; anything else is kept.
expanduser(s, home_ok) ==
    IF s = "~"
    THEN IF home_ok THEN [ok |-> TRUE, path |-> "/home/u"]
                    ELSE [ok |-> FALSE, path |-> ""]
    ELSE [ok |-> TRUE, path |-> s]

\* fs::canonicalize(p): an existing path resolves to its absolute form; a path
\* that does not exist, or whose parent cannot be searched, is an OS error.
canonicalize(p) ==
    CASE p = "."          -> [ok |-> TRUE,  path |-> "/work", msg |-> ""]
      [] p = "/home/u"    -> [ok |-> TRUE,  path |-> "/home/u", msg |-> ""]
      [] p = "/data/<FF>" -> [ok |-> TRUE,  path |-> "/data/<FF>", msg |-> ""]
      [] p = "/locked/x"  -> [ok |-> FALSE, path |-> "",
                              msg |-> "Permission denied (os error 13)"]
      [] OTHER            -> [ok |-> FALSE, path |-> "",
                              msg |-> "No such file or directory (os error 2)"]

\* The inputs that name something present in the file system when new is
\* called; "~" names the home directory only where it is expanded.
ExistsOnDisk(s, unix) == s \in {".", "/data/<FF>"} \/ (s = "~" /\ unix)

\* The inputs that name nothing in the file system on any build.
MissingOnDisk(s) == s \in {"/missing", "/missing/<FF>"}

\* A panic of the calling thread: the call returns nothing.
Panic(msg) == [kind |-> "Panic", path |-> "", msg |-> msg]

\* The match on path_result (lib.rs:135-149).  exists_after is what p.exists()
\* answers after canonicalize succeeded: the directory may have been removed
\* by another process in between.
MatchPathResult(path_str, path_result, exists_after) ==
    IF path_result.ok
    THEN IF ~exists_after
         THEN IF to_str(path_str).some
              THEN [kind |-> "NotFound", path |-> "", msg |-> to_str(path_str).val]
              ELSE Panic("called Option::unwrap() on a None value")
         ELSE [kind |-> "Ok", path |-> path_result.path, msg |-> ""]
    ELSE [kind |-> "Other", path |-> "", msg |-> path_result.msg]

\* check_and_expand_path(path_str).  On unix the path is converted with
\* to_str().unwrap() and expanded with expanduser(..).unwrap() before it is
\* canonicalized, and each unwrap panics on None / Err; elsewhere the path is
\* canonicalized as given.
check_and_expand_path(path_str, unix, home_ok, exists_after) ==
    IF unix
    THEN IF ~to_str(path_str).some
         THEN Panic("called Option::unwrap() on a None value")
         ELSE LET e == expanduser(to_str(path_str).val, home_ok) IN
              IF ~e.ok
              THEN Panic("called Result::unwrap() on an Err value")
              ELSE MatchPathResult(path_str, canonicalize(e.path), exists_after)
    ELSE MatchPathResult(path_str, canonicalize(path_str), exists_after)


\* ------------------------------------------------------------------- state
VARIABLES
    cfg_unix,   \* whether the build is cfg(unix)
    arg_path,   \* root_path argument of the call to Scandir::new
    arg_store,  \* store argument of the call to Scandir::new (Option<bool>)
    result,     \* outcome of Scandir::new: Ok(controller), Err(kind, msg) or a panic
    options,    \* Scandir.options
    store,      \* Scandir.store
    entries,    \* Scandir.entries
    duration,   \* Scandir.duration   (Arc<Mutex<f64>>, in clock ticks)
    finished,   \* Scandir.finished   (Arc<AtomicBool>)
    thr,        \* Scandir.thr        (Option<JoinHandle>)
    stop,       \* Scandir.stop       (Arc<AtomicBool>)
    rx,         \* Scandir.rx         (Option<Receiver>)
    chan,       \* items in flight in the result channel
    wpc,        \* position of the worker thread
    pos,        \* number of tree nodes the worker has visited
    cnt,        \* worker's running count of reported entries
    elapsed,    \* clock ticks since the walk started
    ret,        \* the last query and the value it returned
    calls       \* number of queries the caller has made

fields == <<options, store, entries, duration, finished, thr, stop, rx>>
worker == <<chan, wpc, pos, cnt, elapsed>>
caller == <<cfg_unix, arg_path, arg_store, result, ret, calls>>
vars == <<cfg_unix, arg_path, arg_store, result, options, store, entries, duration,
          finished, thr, stop, rx, chan, wpc, pos, cnt, elapsed, ret, calls>>

\* Option<bool>
NoneBool == [some |-> FALSE, val |-> FALSE]
SomeBool(b) == [some |-> TRUE, val |-> b]
OptBool == {NoneBool, SomeBool(TRUE), SomeBool(FALSE)}

\* Option::unwrap_or
unwrap_or(o, default) == IF o.some THEN o.val ELSE default

\* ScandirResults::new()
ScandirResults_new == [results |-> <<>>, errors |-> <<>>]

\* The field values of the struct literal in Scandir::new.
NewFields_finished_set(root_path, store_arg) ==
    [options  |-> [root_path |-> root_path, sorted |-> FALSE,
                   skip_hidden |-> FALSE, max_depth |-> USIZE_MAX,
                   max_file_cnt |-> USIZE_MAX, dir_include |-> None,
                   dir_exclude |-> None, file_include |-> None,
                   file_exclude |-> None, case_sensitive |-> FALSE,
                   return_type |-> "Base"],
     store    |-> unwrap_or(store_arg, TRUE),
     entries  |-> ScandirResults_new,
     duration |-> 0,
     finished |-> TRUE,
     thr      |-> None,
     stop     |-> FALSE,
     rx       |-> None]

NewFields_negative_duration(root_path, store_arg) ==
    [options  |-> [root_path |-> root_path, sorted |-> FALSE,
                   skip_hidden |-> FALSE, max_depth |-> USIZE_MAX,
                   max_file_cnt |-> USIZE_MAX, dir_include |-> None,
                   dir_exclude |-> None, file_include |-> None,
                   file_exclude |-> None, case_sensitive |-> FALSE,
                   return_type |-> "Base"],
     store    |-> unwrap_or(store_arg, TRUE),
     entries  |-> ScandirResults_new,
     duration |-> -1,
     finished |-> FALSE,
     thr      |-> None,
     stop     |-> FALSE,
     rx       |-> None]

NewFields_depth_zero(root_path, store_arg) ==
    [options  |-> [root_path |-> root_path, sorted |-> FALSE,
                   skip_hidden |-> FALSE, max_depth |-> 0,
                   max_file_cnt |-> USIZE_MAX, dir_include |-> None,
                   dir_exclude |-> None, file_include |-> None,
                   file_exclude |-> None, case_sensitive |-> FALSE,
                   return_type |-> "Base"],
     store    |-> unwrap_or(store_arg, TRUE),
     entries  |-> ScandirResults_new,
     duration |-> 0,
     finished |-> FALSE,
     thr      |-> None,
     stop     |-> FALSE,
     rx       |-> None]

NewFields_store_off(root_path, store_arg) ==
    [options  |-> [root_path |-> root_path, sorted |-> FALSE,
                   skip_hidden |-> FALSE, max_depth |-> USIZE_MAX,
                   max_file_cnt |-> USIZE_MAX, dir_include |-> None,
                   dir_exclude |-> None, file_include |-> None,
                   file_exclude |-> None, case_sensitive |-> FALSE,
                   return_type |-> "Base"],
     store    |-> unwrap_or(store_arg, FALSE),
     entries  |-> ScandirResults_new,
     duration |-> 0,
     finished |-> FALSE,
     thr      |-> None,
     stop     |-> FALSE,
     rx       |-> None]

NewFields(root_path, store_arg) ==
    [options  |-> [root_path |-> root_path, sorted |-> FALSE,
                   skip_hidden |-> FALSE, max_depth |-> USIZE_MAX,
                   max_file_cnt |-> USIZE_MAX, dir_include |-> None,
                   dir_exclude |-> None, file_include |-> None,
                   file_exclude |-> None, case_sensitive |-> FALSE,
                   return_type |-> "Base"],
     store    |-> unwrap_or(store_arg, TRUE),
     entries  |-> ScandirResults_new,
     duration |-> 0,
     finished |-> FALSE,
     thr      |-> None,
     stop     |-> FALSE,
     rx       |-> None]

\* The fields before a controller exists: nothing has been constructed.
Unbuilt == NewFields("", NoneBool)

\* The controller's fields are those of the record f.
Built(f) ==
    /\ options' = f.options
    /\ store' = f.store
    /\ entries' = f.entries
    /\ duration' = f.duration
    /\ finished' = f.finished
    /\ thr' = f.thr
    /\ stop' = f.stop
    /\ rx' = f.rx

Init ==
    /\ cfg_unix \in BOOLEAN
    /\ arg_path = ""
    /\ arg_store = NoneBool
    /\ result = [kind |-> "NotCalled", msg |-> ""]
    /\ options = Unbuilt.options
    /\ store = Unbuilt.store
    /\ entries = Unbuilt.entries
    /\ duration = Unbuilt.duration
    /\ finished = Unbuilt.finished
    /\ thr = Unbuilt.thr
    /\ stop = Unbuilt.stop
    /\ rx = Unbuilt.rx
    /\ chan = <<>>
    /\ wpc = "idle"
    /\ pos = 0
    /\ cnt = 0
    /\ elapsed = 0
    /\ ret = [op |-> None, b |-> FALSE, d |-> 0]
    /\ calls = 0

\* Scandir::new(root_path, store): the `?` returns the resolution error to
\* the caller before the struct is built; a panic of check_and_expand_path
\* unwinds through new, which then returns nothing.
Scandir_new(root_path, store_arg, home_ok, exists_after) ==
    LET r == check_and_expand_path(root_path, cfg_unix, home_ok, exists_after) IN
    /\ result.kind = "NotCalled"
    /\ arg_path' = root_path
    /\ arg_store' = store_arg
    /\ IF r.kind = "Ok"
       THEN /\ result' = [kind |-> "Ok", msg |-> ""]
            /\ Built(NewFields(r.path, store_arg))
       ELSE /\ result' = [kind |-> r.kind, msg |-> r.msg]
            /\ UNCHANGED fields
    /\ UNCHANGED <<cfg_unix, worker, ret, calls>>

\* ----------------------------------------------------------------- queries
\* Scandir::duration(&mut self)
Scandir_duration == duration

Scandir_finished_or_zero == duration >= 0

Scandir_finished_flag == finished

\* Scandir::finished(&mut self)
Scandir_finished == duration > 0

\* Scandir::finished2(&mut self)
Scandir_finished2 == duration # 0

\* The caller calls duration().
CallDuration ==
    /\ result.kind = "Ok"
    /\ calls < MaxCalls
    /\ calls' = calls + 1
    /\ ret' = [op |-> "duration", b |-> FALSE, d |-> Scandir_duration]
    /\ UNCHANGED <<cfg_unix, arg_path, arg_store, result, fields, worker>>

\* The caller calls finished().
CallFinished ==
    /\ result.kind = "Ok"
    /\ calls < MaxCalls
    /\ calls' = calls + 1
    /\ ret' = [op |-> "finished", b |-> Scandir_finished, d |-> 0]
    /\ UNCHANGED <<cfg_unix, arg_path, arg_store, result, fields, worker>>

\* The caller calls finished2().
CallFinished2 ==
    /\ result.kind = "Ok"
    /\ calls < MaxCalls
    /\ calls' = calls + 1
    /\ ret' = [op |-> "finished2", b |-> Scandir_finished2, d |-> 0]
    /\ UNCHANGED <<cfg_unix, arg_path, arg_store, result, fields, worker>>


\* ------------------------------------------------------ start, stop, worker
\* The operations below have no code in the repository (only the fields they
\* use are declared, lib.rs:153-165); they follow the design document,
\* sections 4.2, 4.3 and 5.

\* The values of max_file_cnt a caller starts a scan with.
FileCnts == (0 .. MaxCnt) \cup {USIZE_MAX}

\* start: spawns the worker against the validated root and the options of
\* this scan, and returns immediately.
Start(n) ==
    /\ result.kind = "Ok"
    /\ thr = None
    /\ options' = [options EXCEPT !.max_file_cnt = n]
    /\ thr' = "Some"
    /\ rx' = "Some"
    /\ wpc' = "walking"
    /\ UNCHANGED <<store, entries, duration, finished, stop,
                   chan, pos, cnt, elapsed, caller>>

\* stop: sets the shared cancellation flag and does not block.
Stop ==
    /\ result.kind = "Ok"
    /\ thr = "Some"
    /\ stop' = TRUE
    /\ UNCHANGED <<options, store, entries, duration, finished, thr, rx,
                   worker, caller>>

\* Wall-clock time passes while the walk runs.
Tick ==
    /\ wpc = "walking"
    /\ elapsed < MaxElapsed
    /\ elapsed' = elapsed + 1
    /\ UNCHANGED <<fields, chan, wpc, pos, cnt, caller>>

\* The result item of a visited node: an entry, or an error record when the
\* stat call fails.
Item(node, stat_ok) == [tag |-> IF stat_ok THEN "DirEntry" ELSE "Error", node |-> node]

\* A node visit that stops only once the count has passed max_file_cnt.
WorkerVisit_past_limit ==
    /\ wpc = "walking"
    /\ IF stop \/ pos = TreeSize
       THEN /\ wpc' = "finishing"
            /\ UNCHANGED <<chan, pos, cnt>>
       ELSE \E stat_ok \in BOOLEAN :
            /\ chan' = Append(chan, Item(pos + 1, stat_ok))
            /\ pos' = pos + 1
            /\ cnt' = IF stat_ok THEN cnt + 1 ELSE cnt
            /\ wpc' = IF stat_ok /\ cnt' > options.max_file_cnt
                      THEN "finishing" ELSE "walking"
    /\ UNCHANGED <<fields, elapsed, caller>>

\* One node visit of the worker: the cancellation flag is checked before the
\* node is processed; after an emitted report the running count is checked
\* against max_file_cnt.
WorkerVisit ==
    /\ wpc = "walking"
    /\ IF stop \/ pos = TreeSize
       THEN /\ wpc' = "finishing"
            /\ UNCHANGED <<chan, pos, cnt>>
       ELSE \E stat_ok \in BOOLEAN :
            /\ chan' = Append(chan, Item(pos + 1, stat_ok))
            /\ pos' = pos + 1
            /\ cnt' = IF stat_ok THEN cnt + 1 ELSE cnt
            /\ wpc' = IF stat_ok /\ cnt' >= options.max_file_cnt
                      THEN "finishing" ELSE "walking"
    /\ UNCHANGED <<fields, elapsed, caller>>

RecordedDuration_raw(e) == e

\* The value the worker records: the elapsed time, strictly positive even
\* when the walk ended within one tick of the clock.
RecordedDuration(e) == IF e > 0 THEN e ELSE 1

\* On completion or cancellation the worker records the duration ...
WorkerRecord ==
    /\ wpc = "finishing"
    /\ duration' = RecordedDuration(elapsed)
    /\ wpc' = "recorded"
    /\ UNCHANGED <<options, store, entries, finished, thr, stop, rx,
                   chan, pos, cnt, elapsed, caller>>

\* ... and then sets the finished signal.
WorkerSignal ==
    /\ wpc = "recorded"
    /\ finished' = TRUE
    /\ wpc' = "done"
    /\ UNCHANGED <<options, store, entries, duration, thr, stop, rx,
                   chan, pos, cnt, elapsed, caller>>

\* Store mode: the collector moves the next item of the channel into the
\* accumulated results (an error record also into the error list).
Collect ==
    /\ rx = "Some"
    /\ store
    /\ chan # <<>>
    /\ entries' = [results |-> Append(entries.results, Head(chan)),
                   errors  |-> IF Head(chan).tag = "Error"
                               THEN Append(entries.errors, Head(chan).node)
                               ELSE entries.errors]
    /\ chan' = Tail(chan)
    /\ UNCHANGED <<options, store, duration, finished, thr, stop, rx,
                   wpc, pos, cnt, elapsed, caller>>

\* Streaming mode: the caller receives the next item of the channel itself.
Recv ==
    /\ rx = "Some"
    /\ ~store
    /\ chan # <<>>
    /\ chan' = Tail(chan)
    /\ UNCHANGED <<fields, wpc, pos, cnt, elapsed, caller>>

\* ------------------------------------------------------------ specification
New ==
    \E p \in PathInputs, s \in OptBool, h \in BOOLEAN, x \in BOOLEAN :
        Scandir_new(p, s, h, x)

StartScan == \E n \in FileCnts : Start(n)

Next ==
    \/ New
    \/ CallDuration
    \/ CallFinished
    \/ CallFinished2
    \/ StartScan
    \/ Stop
    \/ Tick
    \/ WorkerVisit
    \/ WorkerRecord
    \/ WorkerSignal
    \/ Collect
    \/ Recv

Spec == Init /\ [][Next]_vars

\* The worker is a thread of its own: the scheduler runs it as long as it
\* has a step to take.
FairSpec ==
    /\ Spec
    /\ WF_vars(WorkerVisit)
    /\ WF_vars(WorkerRecord)
    /\ WF_vars(WorkerSignal)

TypeOK ==
    /\ result.kind \in {"NotCalled", "Ok", "NotFound", "Other", "Panic"}
    /\ store \in BOOLEAN
    /\ finished \in BOOLEAN
    /\ stop \in BOOLEAN
    /\ thr \in {None, "Some"}
    /\ rx \in {None, "Some"}
    /\ wpc \in {"idle", "walking", "finishing", "recorded", "done"}
    /\ pos \in 0 .. TreeSize
    /\ cnt \in 0 .. TreeSize
    /\ calls \in 0 .. MaxCalls


\* ------------------------------------------------------------------ claims

\* C1: from construction until the worker has recorded its completion or
\* cancellation, finished() is false and duration() is 0.0, and so is every
\* value the caller's queries have returned, however many it has made.
C1_NotFinishedBeforeCompletion ==
    (result.kind = "Ok" /\ wpc \in {"idle", "walking", "finishing"}) =>
        /\ ~Scandir_finished
        /\ Scandir_duration = 0
        /\ (ret.op = "finished" => ret.b = FALSE)
        /\ (ret.op = "duration" => ret.d = 0)

C1_Witness ==
    /\ result.kind = "Ok"
    /\ wpc = "walking"
    /\ calls >= 2
    /\ ret.op = "finished"
    /\ ret.b = FALSE

\* C2: in every state of a controller, finished() is true exactly when the
\* value duration() returns is greater than 0.0.
C2_FinishedIffDurationPositive ==
    result.kind = "Ok" => (Scandir_finished <=> Scandir_duration > 0)

C2_Witness ==
    /\ result.kind = "Ok"
    /\ Scandir_finished
    /\ Scandir_duration > 0
    /\ ret.op = "finished"
    /\ ret.b = TRUE

\* C3: when the root path names nothing that exists, Scandir::new returns an
\* error to the caller; and when it did, no controller exists and no scan
\* ever begins: no field is built, no worker runs, no item is produced,
\* duration and finished stay unset.
C3_SetupErrorStopsEverything ==
    /\ (result.kind # "NotCalled" /\ ~ExistsOnDisk(arg_path, cfg_unix))
          => result.kind \in {"NotFound", "Other"}
    /\ result.kind \in {"NotFound", "Other"} =>
          /\ fields = <<Unbuilt.options, Unbuilt.store, Unbuilt.entries,
                        Unbuilt.duration, Unbuilt.finished, Unbuilt.thr,
                        Unbuilt.stop, Unbuilt.rx>>
          /\ thr = None
          /\ wpc = "idle"
          /\ chan = <<>>
          /\ duration = 0
          /\ ~finished
          /\ calls = 0

\* C4: path resolution fails with the not-found kind whenever the path it
\* was given names nothing that exists.
C4_MissingPathIsNotFound ==
    (result.kind \notin {"NotCalled", "Ok"} /\ MissingOnDisk(arg_path))
        => result.kind = "NotFound"

\* C5: the store flag of a controller is true when new was given no value,
\* is the given value otherwise, and no later operation changes it.
C5_StoreFixedAtConstruction ==
    result.kind = "Ok" =>
        /\ (~arg_store.some => store = TRUE)
        /\ (arg_store.some => store = arg_store.val)

C5_Witness ==
    /\ result.kind = "Ok"
    /\ ~arg_store.some
    /\ store = TRUE
    /\ stop
    /\ wpc = "done"
    /\ ret.op = "duration"

\* C6: every started scan eventually has finished() true with a recorded
\* duration greater than zero and the finished signal set, whether it ran to
\* the end or was stopped.
C6_StartedEventuallyFinished ==
    (thr = "Some") ~> (Scandir_finished /\ duration > 0 /\ finished)

C6_Witness ==
    /\ thr = "Some"
    /\ stop
    /\ pos < TreeSize
    /\ elapsed = 0
    /\ Scandir_finished
    /\ finished

C8_SignalAfterDuration ==
    (result.kind = "Ok" /\ finished) => (duration > 0 /\ Scandir_finished)

C8_Witness ==
    /\ result.kind = "Ok"
    /\ finished
    /\ wpc = "done"

\* C9: finished() and finished2() return the same value in every state of a
\* controller: the duration is never negative.
C9_FinishedAgreesWithFinished2 ==
    result.kind = "Ok" =>
        /\ Scandir_finished = Scandir_finished2
        /\ duration >= 0

C9_Witness ==
    /\ result.kind = "Ok"
    /\ ret.op = "finished2"
    /\ ret.b = TRUE
    /\ Scandir_finished

\* C10: a successful Scandir::new leaves an idle, unrestricted controller:
\* no worker thread, no channel, stop and finished clear, no stored result
\* or error, duration 0.0 and options that impose no limit.
C10_NewIsIdleAndUnrestricted ==
    [][(result.kind = "NotCalled" /\ result'.kind = "Ok") =>
         /\ thr' = None
         /\ rx' = None
         /\ stop' = FALSE
         /\ finished' = FALSE
         /\ duration' = 0
         /\ entries'.results = <<>>
         /\ entries'.errors = <<>>
         /\ options'.max_depth = USIZE_MAX
         /\ options'.max_file_cnt = USIZE_MAX
         /\ options'.dir_include = None
         /\ options'.dir_exclude = None
         /\ options'.file_include = None
         /\ options'.file_exclude = None
         /\ options'.sorted = FALSE
         /\ options'.skip_hidden = FALSE
         /\ options'.case_sensitive = FALSE
         /\ options'.return_type = "Base"
         /\ options'.root_path \in {"/work", "/home/u", "/data/<FF>"}
         /\ wpc' = "idle"
         /\ chan' = <<>>]_vars

C10_Witness ==
    /\ result.kind = "Ok"
    /\ arg_path = "."
    /\ options.root_path = "/work"
    /\ thr = None
    /\ calls = 0

====
